---- MODULE Spec2Model ----
(***************************************************************************)
(* Model of the workflow condition language of terminator-mcp-agent        *)
(* (crates/terminator-mcp-agent/src/expression_eval.rs): the normalizer,   *)
(* the path resolver, the coercion rules, the function library and the     *)
(* recursive evaluator, with the host that builds an expression text and   *)
(* calls evaluate(expression, variables).                                  *)
(*                                                                         *)
(* A text is a sequence of characters; a character is a one-symbol string. *)
(* Characters outside ASCII are named by their code point.  Every slice    *)
(* the code takes starts or ends at a match of an ASCII pattern, so        *)
(* character positions stand for the byte offsets of the code.             *)
(***************************************************************************)
EXTENDS Integers, Sequences, FiniteSets, TLC

VARIABLES
    variables,   \* the variable context (a serde_json Value) of the call
    call,        \* how the host built the text: [kind, parts]
    original,    \* the text before the host rewrote quotes and spaces
    input,       \* the expression text passed to evaluate
    result,      \* what the call returned: the boolean of evaluate, the
                 \* Option<&Value> of get_value
    warnings,    \* the texts named by the warn! lines of the call, in order
    depth,       \* the deepest nesting of evaluate_internal calls reached
    shrinks,     \* whether every recursive call got a strictly shorter text
    pc,          \* "compose" before the call, "done" after it returned,
                 \* "panicked" after it panicked
    normalized,  \* the local `normalized` of evaluate, by the call that owns it
                 \* (0 is the host's own call, w the call of worker thread w)
    threads      \* the worker threads that call evaluate on the shared context

vars ==
    <<variables, call, original, input, result, warnings, depth, shrinks, pc,
      normalized, threads>>

----------------------------------------------------------------------------
(* Characters *)

SQ == "'"
DQ == "\""
BT == "U+0060"
LSQ == "U+2018"
RSQ == "U+2019"
LDQ == "U+201C"
RDQ == "U+201D"
NBSP == "U+00A0"
THIN == "U+2009"
NNBSP == "U+202F"
TAB == "U+0009"
SP == " "
\* characters normalize_expression leaves alone, two and four bytes long
EACUTE == "U+00E9"
EMOJI == "U+1F600"


----------------------------------------------------------------------------
(* Text primitives of the standard library, as the code uses them *)

NoText == [some |-> FALSE, v |-> <<>>]
SomeText(s) == [some |-> TRUE, v |-> s]

NoBool == [some |-> FALSE, v |-> FALSE]
SomeBool(b) == [some |-> TRUE, v |-> b]

\* the first position from i on, and the last position down from j, whose
\* character is not in cs
RECURSIVE skip_start(_, _, _)
skip_start(s, i, cs) ==
    IF i > Len(s) \/ s[i] \notin cs THEN i ELSE skip_start(s, i + 1, cs)

RECURSIVE skip_end(_, _, _)
skip_end(s, j, cs) ==
    IF j < 1 \/ s[j] \notin cs THEN j ELSE skip_end(s, j - 1, cs)

\* str::trim_matches(pred): drop the leading and trailing characters in cs
trim_matches(s, cs) == SubSeq(s, skip_start(s, 1, cs), skip_end(s, Len(s), cs))

\* char::is_whitespace holds of these (the White_Space property)
Whitespace == {SP, TAB, NBSP, THIN, NNBSP}

\* str::trim: drop leading and trailing whitespace
trim(s) == trim_matches(s, Whitespace)

\* str::find(pat): the position of the first match of pat, 0 for None
RECURSIVE find_from(_, _, _)
find_from(s, pat, i) ==
    IF i + Len(pat) - 1 > Len(s) THEN 0
    ELSE IF SubSeq(s, i, i + Len(pat) - 1) = pat THEN i
    ELSE find_from(s, pat, i + 1)

find(s, pat) == find_from(s, pat, 1)

\* str::contains(pat)
str_contains(s, pat) == find(s, pat) # 0

starts_with(s, pat) == Len(pat) <= Len(s) /\ SubSeq(s, 1, Len(pat)) = pat

ends_with(s, pat) ==
    Len(pat) <= Len(s) /\ SubSeq(s, Len(s) - Len(pat) + 1, Len(s)) = pat

\* a strip_prefix that drops every leading c, as trim_start_matches does
RECURSIVE strip_every_prefix(_, _)
strip_every_prefix(s, c) ==
    IF Len(s) >= 1 /\ s[1] = c
    THEN (IF Len(s) >= 2 /\ s[2] = c THEN strip_every_prefix(SubSeq(s, 2, Len(s)), c)
          ELSE [some |-> TRUE, v |-> SubSeq(s, 2, Len(s))])
    ELSE [some |-> FALSE, v |-> <<>>]

\* str::strip_prefix(c): the rest after one leading c, None without it
strip_prefix(s, c) ==
    IF Len(s) >= 1 /\ s[1] = c THEN SomeText(SubSeq(s, 2, Len(s))) ELSE NoText

\* str::split(c): the pieces between the occurrences of c (always at least one)
RECURSIVE split(_, _)
split(s, c) ==
    LET pos == find(s, <<c>>)
    IN  IF pos = 0 THEN <<s>>
        ELSE <<SubSeq(s, 1, pos - 1)>> \o split(SubSeq(s, pos + 1, Len(s)), c)

\* .map(|s| s.trim()).collect()
map_trim(pieces) == [i \in 1..Len(pieces) |-> trim(pieces[i])]

\* char::len_utf8: the bytes of a character in a str
len_utf8(c) ==
    IF c \in {NBSP, EACUTE} THEN 2
    ELSE IF c \in {LSQ, RSQ, LDQ, RDQ, THIN, NNBSP} THEN 3
    ELSE IF c = EMOJI THEN 4
    ELSE 1

\* the bytes of the first i characters
RECURSIVE bytes_to(_, _)
bytes_to(s, i) == IF i <= 0 THEN 0 ELSE len_utf8(s[i]) + bytes_to(s, i - 1)

\* str::len: the length in bytes
byte_len(s) == bytes_to(s, Len(s))

\* the byte offset str::find returns for a match at character i
byte_offset(s, i) == bytes_to(s, i - 1)

\* str::is_char_boundary: b is 0, the length, or the offset of a character;
\* at is the offset of character i
RECURSIVE boundary_from(_, _, _, _)
boundary_from(s, i, at, b) ==
    IF at = b THEN TRUE
    ELSE IF at > b \/ i > Len(s) THEN FALSE
    ELSE boundary_from(s, i + 1, at + len_utf8(s[i]), b)

is_char_boundary(s, b) == boundary_from(s, 1, 0, b)

\* &s[from..to] panics when an end is off a character boundary or from > to
slice_panics(s, from, to) ==
    from > to \/ ~is_char_boundary(s, from) \/ ~is_char_boundary(s, to)

\* &expr[..pos] and &expr[pos + n..], pos the offset of a match at character i
split_panics(expr, i, n) ==
    \/ slice_panics(expr, 0, byte_offset(expr, i))
    \/ slice_panics(expr, byte_offset(expr, i) + n, byte_len(expr))

----------------------------------------------------------------------------
(* Numbers: a decimal m / 10^k, k minimal.  str::parse::<f64> and          *)
(* str::parse::<i64> on decimal texts (sign, digits, one point); the texts *)
(* of the model hold no exponent and none of inf, infinity, nan.           *)

Digits == <<"0", "1", "2", "3", "4", "5", "6", "7", "8", "9">>
IsDigit(c) == \E i \in 1..10 : Digits[i] = c
DigitVal(c) == (CHOOSE i \in 1..10 : Digits[i] = c) - 1

RECURSIVE Nat10(_)
Nat10(s) == IF s = <<>> THEN 0 ELSE Nat10(SubSeq(s, 1, Len(s) - 1)) * 10 + DigitVal(s[Len(s)])

RECURSIVE Pow10(_)
Pow10(k) == IF k = 0 THEN 1 ELSE 10 * Pow10(k - 1)

NoNum == [some |-> FALSE, m |-> 0, k |-> 0]
\* the decimal m / 10^k with trailing zeros of the fraction dropped
RECURSIVE Dec(_, _)
Dec(m, k) == IF k > 0 /\ m % 10 = 0 THEN Dec(m \div 10, k - 1) ELSE [some |-> TRUE, m |-> m, k |-> k]

Unsigned(s) == IF Len(s) >= 1 /\ s[1] \in {"+", "-"} THEN SubSeq(s, 2, Len(s)) ELSE s
Sign(s) == IF Len(s) >= 1 /\ s[1] = "-" THEN -1 ELSE 1

parse_i64(s) ==
    LET u == Unsigned(s)
    IN  IF Len(u) >= 1 /\ \A i \in 1..Len(u) : IsDigit(u[i])
        THEN [some |-> TRUE, m |-> Sign(s) * Nat10(u), k |-> 0]
        ELSE NoNum

parse_f64(s) ==
    LET u == Unsigned(s)
        dot == find(u, <<".">>)
        ip == IF dot = 0 THEN u ELSE SubSeq(u, 1, dot - 1)
        fp == IF dot = 0 THEN <<>> ELSE SubSeq(u, dot + 1, Len(u))
    IN  IF /\ Len(ip) + Len(fp) >= 1
           /\ \A i \in 1..Len(ip) : IsDigit(ip[i])
           /\ \A i \in 1..Len(fp) : IsDigit(fp[i])
        THEN Dec(Sign(s) * Nat10(ip \o fp), Len(fp))
        ELSE NoNum

NumLt(a, b) == a.m * Pow10(b.k) < b.m * Pow10(a.k)
NumEq(a, b) == a.m * Pow10(b.k) = b.m * Pow10(a.k)

----------------------------------------------------------------------------
(* serde_json::Value *)

Null == [kind |-> "Null"]
Bool(b) == [kind |-> "Bool", b |-> b]
\* Number: isf tells the f64 representation (1.0) from the integer one (1)
Int64(n) == [kind |-> "Number", isf |-> FALSE, m |-> n, k |-> 0]
Float(m, k) == [kind |-> "Number", isf |-> TRUE, m |-> Dec(m, k).m, k |-> Dec(m, k).k]
String(s) == [kind |-> "String", s |-> s]
Array(items) == [kind |-> "Array", items |-> items]
Object(fields) == [kind |-> "Object", fields |-> fields]

\* Option<&Value>: Absent is None
Absent == [kind |-> "Absent"]

\* Value::get(key) with a text key: a member of an Object, None otherwise
value_get(v, key) ==
    IF v.kind = "Object" /\ key \in DOMAIN v.fields THEN v.fields[key] ELSE Absent

\* Number::as_f64
as_f64(v) == [some |-> TRUE, m |-> v.m, k |-> v.k]
\* Number::as_i64: None for a Number held as f64
as_i64(v) == IF v.isf THEN NoNum ELSE [some |-> TRUE, m |-> v.m, k |-> 0]

----------------------------------------------------------------------------
(* expression_eval.rs *)

\* a normalize_char that leaves the backtick alone
normalize_char_without_backtick(c) ==
    IF c \in {LSQ, RSQ} THEN SQ
    ELSE IF c \in {LDQ, RDQ} THEN DQ
    ELSE IF c \in {NBSP, THIN, NNBSP} THEN SP
    ELSE c

\* normalize_expression: the replacement of one character
normalize_char(c) ==
    IF c \in {LSQ, RSQ} THEN SQ
    ELSE IF c \in {LDQ, RDQ} THEN DQ
    ELSE IF c = BT THEN SQ
    ELSE IF c \in {NBSP, THIN, NNBSP} THEN SP
    ELSE c

\* a normalize_expression without the trim
normalize_expression_untrimmed(expr) == [i \in 1..Len(expr) |-> normalize_char(expr[i])]

normalize_expression(expr) == trim([i \in 1..Len(expr) |-> normalize_char(expr[i])])

\* a loop that stops at a missing segment and returns the node reached
RECURSIVE walk_partial(_, _)
walk_partial(current, parts) ==
    IF parts = <<>> THEN current
    ELSE LET next == value_get(current, Head(parts))
         IN  IF next = Absent THEN current ELSE walk_partial(next, Tail(parts))

\* the for loop of get_value: current = current.get(part)?
RECURSIVE walk(_, _)
walk(current, parts) ==
    IF parts = <<>> THEN current
    ELSE LET next == value_get(current, Head(parts))
         IN  IF next = Absent THEN Absent ELSE walk(next, Tail(parts))

get_value(path, vs) ==
    IF ~str_contains(path, <<".">>) THEN value_get(vs, path)
    ELSE walk(vs, split(path, "."))

\* Value::as_str and Value::as_bool
as_str(v) == IF v.kind = "String" THEN SomeText(v.s) ELSE NoText
as_bool(v) == IF v.kind = "Bool" THEN SomeBool(v.b) ELSE NoBool

evaluate_contains(collection, item) ==
    IF collection.kind = "Array"
    THEN \E i \in 1..Len(collection.items) : as_str(collection.items[i]) = SomeText(item)
    ELSE IF collection.kind = "String" THEN str_contains(collection.s, item)
    ELSE FALSE

\* the arm of the functions that take two arguments
two_argument_function(func_name, args_str, vs) ==
    LET args == map_trim(split(args_str, ","))
    IN  IF Len(args) # 2 THEN NoBool
        ELSE LET val1 == get_value(args[1], vs)
                 val2_str == trim_matches(args[2], {SQ})
             IN  IF val1 = Absent THEN NoBool
                 ELSE IF func_name = <<"c", "o", "n", "t", "a", "i", "n", "s">>
                      THEN SomeBool(evaluate_contains(val1, val2_str))
                 ELSE IF func_name = <<"s", "t", "a", "r", "t", "s", "W", "i", "t", "h">>
                      THEN IF as_str(val1).some
                           THEN SomeBool(starts_with(val1.s, val2_str))
                           ELSE NoBool
                 ELSE IF func_name = <<"e", "n", "d", "s", "W", "i", "t", "h">>
                      THEN IF as_str(val1).some
                           THEN SomeBool(ends_with(val1.s, val2_str))
                           ELSE NoBool
                 ELSE NoBool

\* a removal of the trailing character without the ends_with(')') guard
function_panics_unguarded(expr) ==
    LET open == find(expr, <<"(">>)
        rest == SubSeq(expr, open + 1, Len(expr))
    IN  open # 0 /\ slice_panics(rest, 0, byte_len(rest) - 1)

\* whether &args_str[..args_str.len() - 1] of parse_and_evaluate_function
\* panics; the slice is taken only after args_str.ends_with(')')
function_panics(expr) ==
    LET open == find(expr, <<"(">>)
        rest == SubSeq(expr, open + 1, Len(expr))
    IN  open # 0 /\ ends_with(rest, <<")">>) /\ slice_panics(rest, 0, byte_len(rest) - 1)

parse_and_evaluate_function(expr, vs) ==
    LET open == find(expr, <<"(">>)
        func_name == trim(SubSeq(expr, 1, open - 1))
        rest == SubSeq(expr, open + 1, Len(expr))
        args_str == SubSeq(rest, 1, Len(rest) - 1)
    IN  IF open = 0 THEN NoBool
        ELSE IF ~ends_with(rest, <<")">>) THEN NoBool
        ELSE IF func_name = <<"a", "l", "w", "a", "y", "s">>
             THEN IF trim(args_str) = <<>> THEN SomeBool(TRUE) ELSE NoBool
        ELSE two_argument_function(func_name, args_str, vs)

compare_values_smart(lhs, rhs_str) ==
    IF lhs.kind = "String" THEN lhs.s = rhs_str
    ELSE IF lhs = Bool(TRUE) THEN rhs_str \in {<<"t", "r", "u", "e">>, <<"1">>}
    ELSE IF lhs = Bool(FALSE) THEN rhs_str \in {<<"f", "a", "l", "s", "e">>, <<"0">>}
    ELSE IF lhs.kind = "Number"
         THEN LET r == parse_f64(rhs_str) IN r.some /\ NumEq(r, as_f64(lhs))
    ELSE FALSE

is_truthy(val) ==
    IF val.kind = "Bool" THEN val.b
    ELSE IF val.kind = "String"
         THEN val.s # <<>> /\ val.s # <<"f", "a", "l", "s", "e">> /\ val.s # <<"0">>
    ELSE IF val.kind = "Number" THEN as_f64(val).m # 0
    ELSE IF val.kind = "Null" THEN FALSE
    ELSE IF val.kind = "Array" THEN val.items # <<>>
    ELSE DOMAIN val.fields # {}

parse_literal_value(literal) ==
    LET i == parse_i64(literal)
        n == parse_f64(literal)
    IN
    IF i.some THEN Int64(i.m)
    ELSE IF n.some THEN Float(n.m, n.k)
    ELSE IF literal = <<"t", "r", "u", "e">> THEN Bool(TRUE)
    ELSE IF literal = <<"f", "a", "l", "s", "e">> THEN Bool(FALSE)
    ELSE IF literal = <<"n", "u", "l", "l">> THEN Null
    ELSE String(literal)

coalesce_open == <<"c", "o", "a", "l", "e", "s", "c", "e", "(">>

\* a loop that returns the first argument that resolves, truthy or not
RECURSIVE first_resolved(_, _)
first_resolved(args, vs) ==
    IF args = <<>> THEN Absent
    ELSE LET val == get_value(Head(args), vs)
         IN  IF val # Absent THEN val ELSE first_resolved(Tail(args), vs)

\* the for loop of evaluate_coalesce_to_value: the first argument that
\* resolves and is truthy, Absent when the loop ends without one
RECURSIVE first_truthy(_, _)
first_truthy(args, vs) ==
    IF args = <<>> THEN Absent
    ELSE LET val == get_value(Head(args), vs)
         IN  IF val # Absent /\ is_truthy(val) THEN val ELSE first_truthy(Tail(args), vs)

\* a default that keeps the quotes of the last argument
coalesce_default_with_quotes(args, vs) ==
    LET default_arg == args[Len(args)]
        val == get_value(default_arg, vs)
    IN  IF val # Absent THEN val ELSE parse_literal_value(default_arg)

\* the default of evaluate_coalesce_to_value: the last argument
coalesce_default(args, vs) ==
    LET default_arg == trim_matches(args[Len(args)], {SQ, DQ})
        val == get_value(default_arg, vs)
    IN  IF val # Absent THEN val ELSE parse_literal_value(default_arg)

evaluate_coalesce_to_value(expr, vs) ==
    LET func_start == find(expr, coalesce_open)
        after == SubSeq(expr, func_start + Len(coalesce_open), Len(expr))
        args_end == find(after, <<")">>)
        args == map_trim(split(SubSeq(after, 1, args_end - 1), ","))
        truthy == first_truthy(args, vs)
    IN  IF func_start = 0 THEN Absent
        ELSE IF args_end = 0 THEN Absent
        ELSE IF Len(args) < 2 THEN Absent
        ELSE IF truthy # Absent THEN truthy
        ELSE coalesce_default(args, vs)

\* whether the slices of evaluate_coalesce_to_value panic:
\* &expr[args_start..] and &expr[args_start..args_start + args_end]
coalesce_panics(expr) ==
    LET func_start == find(expr, coalesce_open)
        args_start == byte_offset(expr, func_start) + Len(coalesce_open)
        after == SubSeq(expr, func_start + Len(coalesce_open), Len(expr))
        args_end == find(after, <<")">>)
    IN  /\ func_start # 0
        /\ \/ slice_panics(expr, args_start, byte_len(expr))
           \/ /\ args_end # 0
              /\ slice_panics(expr, args_start, args_start + byte_offset(after, args_end))

\* an operator detection that tries > and < before >= and <=
find_operator_short_first(expr) ==
    LET ge == find(expr, <<">", "=">>)
        le == find(expr, <<"<", "=">>)
        eq == find(expr, <<"=", "=">>)
        ne == find(expr, <<"!", "=">>)
        gt == find(expr, <<">">>)
        lt == find(expr, <<"<">>)
    IN  IF gt # 0 THEN [pos |-> gt, op |-> ">"]
        ELSE IF lt # 0 THEN [pos |-> lt, op |-> "<"]
        ELSE IF ge # 0 THEN [pos |-> ge, op |-> ">="]
        ELSE IF le # 0 THEN [pos |-> le, op |-> "<="]
        ELSE IF eq # 0 THEN [pos |-> eq, op |-> "=="]
        ELSE IF ne # 0 THEN [pos |-> ne, op |-> "!="]
        ELSE [pos |-> 0, op |-> ""]

\* the operator detection of parse_and_evaluate_binary_expression: the
\* position (0 for none) and the operator, longest operators first
find_operator(expr) ==
    LET ge == find(expr, <<">", "=">>)
        le == find(expr, <<"<", "=">>)
        eq == find(expr, <<"=", "=">>)
        ne == find(expr, <<"!", "=">>)
        gt == find(expr, <<">">>)
        lt == find(expr, <<"<">>)
    IN  IF ge # 0 THEN [pos |-> ge, op |-> ">="]
        ELSE IF le # 0 THEN [pos |-> le, op |-> "<="]
        ELSE IF eq # 0 THEN [pos |-> eq, op |-> "=="]
        ELSE IF ne # 0 THEN [pos |-> ne, op |-> "!="]
        ELSE IF gt # 0 THEN [pos |-> gt, op |-> ">"]
        ELSE IF lt # 0 THEN [pos |-> lt, op |-> "<"]
        ELSE [pos |-> 0, op |-> ""]

op_len(op) == IF op \in {">", "<"} THEN 1 ELSE 2

\* the left-hand side: a coalesce call or a variable path
left_hand_side(var_path, vs) ==
    IF str_contains(var_path, coalesce_open) THEN evaluate_coalesce_to_value(var_path, vs)
    ELSE get_value(var_path, vs)

\* an undefined left-hand side that makes every comparison false
undefined_result_all_false(op) == FALSE

\* the result for an undefined left-hand side
undefined_result(op) ==
    IF op = "==" THEN FALSE
    ELSE IF op = "!=" THEN TRUE
    ELSE IF op = ">" THEN FALSE
    ELSE IF op = "<" THEN TRUE
    ELSE IF op = ">=" THEN FALSE
    ELSE IF op = "<=" THEN TRUE
    ELSE FALSE

\* an are_equal that compares the keywords true and false as text
are_equal_by_text(lhs, raw_rhs) ==
    IF starts_with(raw_rhs, <<SQ>>) /\ ends_with(raw_rhs, <<SQ>>)
    THEN compare_values_smart(lhs, trim_matches(raw_rhs, {SQ}))
    ELSE IF starts_with(raw_rhs, <<DQ>>) /\ ends_with(raw_rhs, <<DQ>>)
         THEN compare_values_smart(lhs, trim_matches(raw_rhs, {DQ}))
    ELSE compare_values_smart(lhs, raw_rhs)

\* are_equal of the equality arm
are_equal(lhs, raw_rhs) ==
    IF raw_rhs = <<"t", "r", "u", "e">> THEN as_bool(lhs) = SomeBool(TRUE)
    ELSE IF raw_rhs = <<"f", "a", "l", "s", "e">> THEN as_bool(lhs) = SomeBool(FALSE)
    ELSE IF starts_with(raw_rhs, <<SQ>>) /\ ends_with(raw_rhs, <<SQ>>)
         THEN compare_values_smart(lhs, trim_matches(raw_rhs, {SQ}))
    ELSE IF starts_with(raw_rhs, <<DQ>>) /\ ends_with(raw_rhs, <<DQ>>)
         THEN compare_values_smart(lhs, trim_matches(raw_rhs, {DQ}))
    ELSE compare_values_smart(lhs, raw_rhs)

\* lhs_num: the numeric value of the left-hand side
lhs_num(lhs) ==
    IF lhs.kind = "Number" THEN as_f64(lhs)
    ELSE IF lhs.kind = "String" THEN parse_f64(lhs.s)
    ELSE IF lhs = Bool(TRUE) THEN Dec(1, 0)
    ELSE IF lhs = Bool(FALSE) THEN Dec(0, 0)
    ELSE IF lhs.kind = "Null" THEN Dec(0, 0)
    ELSE NoNum

\* rhs_num: the numeric value of the right-hand text
rhs_num(raw_rhs) ==
    IF raw_rhs = <<"t", "r", "u", "e">> THEN Dec(1, 0)
    ELSE IF raw_rhs = <<"f", "a", "l", "s", "e">> \/ raw_rhs = <<"n", "u", "l", "l">> THEN Dec(0, 0)
    ELSE IF starts_with(raw_rhs, <<SQ>>) /\ ends_with(raw_rhs, <<SQ>>)
         THEN parse_f64(trim_matches(raw_rhs, {SQ}))
    ELSE IF starts_with(raw_rhs, <<DQ>>) /\ ends_with(raw_rhs, <<DQ>>)
         THEN parse_f64(trim_matches(raw_rhs, {DQ}))
    ELSE parse_f64(raw_rhs)

\* a numeric arm whose >= and <= leave out the equal case
numeric_compare_without_equal(op, l, r) ==
    IF op \in {">", ">="} THEN NumLt(r, l)
    ELSE IF op \in {"<", "<="} THEN NumLt(l, r)
    ELSE FALSE

\* the match on op of the numeric arm
numeric_compare(op, l, r) ==
    IF op = ">" THEN NumLt(r, l)
    ELSE IF op = "<" THEN NumLt(l, r)
    ELSE IF op = ">=" THEN ~NumLt(l, r)
    ELSE IF op = "<=" THEN ~NumLt(r, l)
    ELSE FALSE

\* whether the slices of parse_and_evaluate_binary_expression panic: the
\* split at the operator and, for a coalesce call, those of its evaluation
binary_panics(expr) ==
    LET found == find_operator(expr)
        var_path == trim(SubSeq(expr, 1, found.pos - 1))
    IN  /\ found.pos # 0
        /\ \/ split_panics(expr, found.pos, op_len(found.op))
           \/ str_contains(var_path, coalesce_open) /\ coalesce_panics(var_path)

parse_and_evaluate_binary_expression(expr, vs) ==
    LET found == find_operator(expr)
        op == found.op
        var_path == trim(SubSeq(expr, 1, found.pos - 1))
        raw_rhs == trim(SubSeq(expr, found.pos + op_len(op), Len(expr)))
        lhs == left_hand_side(var_path, vs)
    IN  IF found.pos = 0 THEN NoBool
        ELSE IF lhs = Absent THEN SomeBool(undefined_result(op))
        ELSE IF op = "==" THEN SomeBool(are_equal(lhs, raw_rhs))
        ELSE IF op = "!=" THEN SomeBool(~are_equal(lhs, raw_rhs))
        ELSE LET l == lhs_num(lhs)
                 r == rhs_num(raw_rhs)
             IN  IF l.some /\ r.some THEN SomeBool(numeric_compare(op, l, r)) ELSE NoBool

\* the match of the variable fallback of evaluate_internal
variable_truthiness(value) ==
    IF value.kind = "Bool" THEN value.b
    ELSE IF value.kind = "String"
         THEN value.s # <<>> /\ value.s # <<"f", "a", "l", "s", "e">> /\ value.s # <<"0">>
    ELSE IF value.kind = "Number" THEN (IF as_i64(value).some THEN as_i64(value).m ELSE 0) # 0
    ELSE IF value.kind = "Null" THEN FALSE
    ELSE IF value.kind = "Array" THEN value.items # <<>>
    ELSE DOMAIN value.fields # {}

\* The outcome of a call: v the boolean returned, w the texts of the warn!
\* lines it emitted, d the nesting of calls below it, sh whether every
\* recursive call got a text strictly shorter than its caller's, p whether
\* the call panicked instead of returning.
Outcome(v, w, d, sh) == [v |-> v, w |-> w, d |-> d, sh |-> sh, p |-> FALSE]

\* the outcome of a call in which a slice panicked
Panic == [v |-> FALSE, w |-> <<>>, d |-> 0, sh |-> TRUE, p |-> TRUE]

\* an evaluate_leaf whose unparseable step defaults to true
evaluate_leaf_default_true(expression, expr, vs) ==
    LET function == parse_and_evaluate_function(expr, vs)
        binary == parse_and_evaluate_binary_expression(expr, vs)
        value == get_value(expr, vs)
    IN  IF function.some THEN Outcome(function.v, <<>>, 0, TRUE)
        ELSE IF binary.some THEN Outcome(binary.v, <<>>, 0, TRUE)
        ELSE IF expr = <<"t", "r", "u", "e">> THEN Outcome(TRUE, <<>>, 0, TRUE)
        ELSE IF expr = <<"f", "a", "l", "s", "e">> THEN Outcome(FALSE, <<>>, 0, TRUE)
        ELSE IF value # Absent THEN Outcome(variable_truthiness(value), <<>>, 0, TRUE)
        ELSE Outcome(TRUE, <<expression>>, 0, TRUE)

\* an evaluate_leaf that resolves the text as a variable before it tries the
\* boolean literals
evaluate_leaf_variable_first(expression, expr, vs) ==
    LET function == parse_and_evaluate_function(expr, vs)
        binary == parse_and_evaluate_binary_expression(expr, vs)
        value == get_value(expr, vs)
    IN  IF function.some THEN Outcome(function.v, <<>>, 0, TRUE)
        ELSE IF binary.some THEN Outcome(binary.v, <<>>, 0, TRUE)
        ELSE IF value # Absent THEN Outcome(variable_truthiness(value), <<>>, 0, TRUE)
        ELSE IF expr = <<"t", "r", "u", "e">> THEN Outcome(TRUE, <<>>, 0, TRUE)
        ELSE IF expr = <<"f", "a", "l", "s", "e">> THEN Outcome(FALSE, <<>>, 0, TRUE)
        ELSE Outcome(FALSE, <<expression>>, 0, TRUE)

\* steps 4 to 8 of evaluate_internal, for a text with no !, && or || to split
evaluate_leaf(expression, expr, vs) ==
    LET function == parse_and_evaluate_function(expr, vs)
        binary == parse_and_evaluate_binary_expression(expr, vs)
        value == get_value(expr, vs)
    IN  IF function_panics(expr) THEN Panic
        ELSE IF function.some THEN Outcome(function.v, <<>>, 0, TRUE)
        ELSE IF binary_panics(expr) THEN Panic
        ELSE IF binary.some THEN Outcome(binary.v, <<>>, 0, TRUE)
        ELSE IF expr = <<"t", "r", "u", "e">> THEN Outcome(TRUE, <<>>, 0, TRUE)
        ELSE IF expr = <<"f", "a", "l", "s", "e">> THEN Outcome(FALSE, <<>>, 0, TRUE)
        ELSE IF value # Absent THEN Outcome(variable_truthiness(value), <<>>, 0, TRUE)
        ELSE Outcome(FALSE, <<expression>>, 0, TRUE)

\* the operands of the split at the first match of a two-character operator
left_of(expr, pos) == trim(SubSeq(expr, 1, pos - 1))
right_of(expr, pos) == trim(SubSeq(expr, pos + 2, Len(expr)))

IntMax(a, b) == IF a >= b THEN a ELSE b

\* an evaluate_internal that splits at || before it splits at &&
RECURSIVE evaluate_internal_or_first(_, _)
evaluate_internal_or_first(expression, vs) ==
    LET expr == trim(expression)
        neg == strip_prefix(expr, "!")
        and_pos == find(expr, <<"&", "&">>)
        or_pos == find(expr, <<"|", "|">>)
    IN  IF neg.some
        THEN LET inner == evaluate_internal_or_first(trim(neg.v), vs)
             IN  Outcome(~inner.v, inner.w, inner.d + 1, inner.sh)
        ELSE IF or_pos # 0
        THEN LET l == evaluate_internal_or_first(left_of(expr, or_pos), vs)
                 r == evaluate_internal_or_first(right_of(expr, or_pos), vs)
             IN  IF l.v THEN Outcome(TRUE, l.w, l.d + 1, l.sh)
                 ELSE Outcome(r.v, l.w \o r.w, IntMax(l.d, r.d) + 1, l.sh /\ r.sh)
        ELSE IF and_pos # 0
        THEN LET l == evaluate_internal_or_first(left_of(expr, and_pos), vs)
                 r == evaluate_internal_or_first(right_of(expr, and_pos), vs)
             IN  IF ~l.v THEN Outcome(FALSE, l.w, l.d + 1, l.sh)
                 ELSE Outcome(r.v, l.w \o r.w, IntMax(l.d, r.d) + 1, l.sh /\ r.sh)
        ELSE evaluate_leaf(expression, expr, vs)

\* an evaluate_internal that splits at && before it looks for a leading !
RECURSIVE evaluate_internal_and_first(_, _)
evaluate_internal_and_first(expression, vs) ==
    LET expr == trim(expression)
        neg == strip_prefix(expr, "!")
        and_pos == find(expr, <<"&", "&">>)
        or_pos == find(expr, <<"|", "|">>)
    IN  IF and_pos # 0
        THEN LET l == evaluate_internal_and_first(left_of(expr, and_pos), vs)
                 r == evaluate_internal_and_first(right_of(expr, and_pos), vs)
             IN  IF ~l.v THEN Outcome(FALSE, l.w, l.d + 1, l.sh)
                 ELSE Outcome(r.v, l.w \o r.w, IntMax(l.d, r.d) + 1, l.sh /\ r.sh)
        ELSE IF neg.some
        THEN LET inner == evaluate_internal_and_first(trim(neg.v), vs)
             IN  Outcome(~inner.v, inner.w, inner.d + 1, inner.sh)
        ELSE IF or_pos # 0
        THEN LET l == evaluate_internal_and_first(left_of(expr, or_pos), vs)
                 r == evaluate_internal_and_first(right_of(expr, or_pos), vs)
             IN  IF l.v THEN Outcome(TRUE, l.w, l.d + 1, l.sh)
                 ELSE Outcome(r.v, l.w \o r.w, IntMax(l.d, r.d) + 1, l.sh /\ r.sh)
        ELSE evaluate_leaf(expression, expr, vs)

RECURSIVE evaluate_internal(_, _)
evaluate_internal(expression, vs) ==
    LET expr == trim(expression)
        neg == strip_prefix(expr, "!")
        and_pos == find(expr, <<"&", "&">>)
        or_pos == find(expr, <<"|", "|">>)
    IN  IF neg.some
        THEN LET inner == evaluate_internal(trim(neg.v), vs)
             IN  IF inner.p THEN Panic
                 ELSE Outcome(~inner.v, inner.w, inner.d + 1,
                              inner.sh /\ Len(trim(neg.v)) < Len(expression))
        ELSE IF and_pos # 0
        THEN LET l == evaluate_internal(left_of(expr, and_pos), vs)
                 r == evaluate_internal(right_of(expr, and_pos), vs)
                 lsh == l.sh /\ Len(left_of(expr, and_pos)) < Len(expression)
                 rsh == r.sh /\ Len(right_of(expr, and_pos)) < Len(expression)
             IN  IF split_panics(expr, and_pos, 2) \/ l.p THEN Panic
                 ELSE IF ~l.v THEN Outcome(FALSE, l.w, l.d + 1, lsh)
                 ELSE IF r.p THEN Panic
                 ELSE Outcome(r.v, l.w \o r.w, IntMax(l.d, r.d) + 1, lsh /\ rsh)
        ELSE IF or_pos # 0
        THEN LET l == evaluate_internal(left_of(expr, or_pos), vs)
                 r == evaluate_internal(right_of(expr, or_pos), vs)
                 lsh == l.sh /\ Len(left_of(expr, or_pos)) < Len(expression)
                 rsh == r.sh /\ Len(right_of(expr, or_pos)) < Len(expression)
             IN  IF split_panics(expr, or_pos, 2) \/ l.p THEN Panic
                 ELSE IF l.v THEN Outcome(TRUE, l.w, l.d + 1, lsh)
                 ELSE IF r.p THEN Panic
                 ELSE Outcome(r.v, l.w \o r.w, IntMax(l.d, r.d) + 1, lsh /\ rsh)
        ELSE evaluate_leaf(expression, expr, vs)

evaluate(expression, vs) == evaluate_internal(normalize_expression(expression), vs)

----------------------------------------------------------------------------
(* The host: the variable contexts and the expression texts it submits *)

CtxA ==
    Object((<<"s">> :> String(<<"a", "b">>))
        @@ (<<"n">> :> Int64(5))
        @@ (<<"t">> :> Bool(TRUE))
        @@ (<<"f">> :> Bool(FALSE))
        @@ (<<"z">> :> Null)
        @@ (<<"l">> :> Array(<<String(<<"a", "b">>), String(<<"c">>)>>))
        @@ (<<"o">> :> Object((<<"k">> :> String(<<"a", "b">>)))))
CtxB ==
    Object((<<"s">> :> String(<<>>))
        @@ (<<"n">> :> Int64(0))
        @@ (<<"t">> :> String(<<"t", "r", "u", "e">>))
        @@ (<<"f">> :> String(<<"0">>))
        @@ (<<"z">> :> Float(5, 1))
        @@ (<<"l">> :> Array(<<>>))
        @@ (<<"o">> :> Object(<<>>)))
CtxC ==
    Object((<<"s">> :> String(<<"a", ",", "b">>))
        @@ (<<"n">> :> String(<<"5">>))
        @@ (<<"t">> :> Int64(1))
        @@ (<<"f">> :> String(<<"f", "a", "l", "s", "e">>))
        @@ (<<"z">> :> Float(10, 1))
        @@ (<<"l">> :> Array(<<Int64(5), String(<<"a", ",", "b">>)>>))
        @@ (<<"o">> :> Object((<<"k">> :> Null)))
        @@ (<<"t", "r", "u", "e">> :> Bool(FALSE))
        @@ (<<"f", "a", "l", "s", "e">> :> Bool(TRUE)))
CtxD == Object(<<>>)
CtxE == Null

Contexts == {CtxA, CtxB, CtxC, CtxD, CtxE}

\* variable paths: present or absent, nested, and through a non-Object
Paths ==
    {<<"s">>,
     <<"n">>,
     <<"t">>,
     <<"f">>,
     <<"z">>,
     <<"l">>,
     <<"o">>,
     <<"o", ".", "k">>,
     <<"m">>,
     <<"o", ".", "x">>,
     <<"s", ".", "k">>}

RECURSIVE Cat(_)
Cat(texts) == IF texts = <<>> THEN <<>> ELSE Head(texts) \o Cat(Tail(texts))

\* texts the host starts from: literals, variables, a text that cannot be
\* parsed, function calls and comparisons
Leaves ==
    {<<"t", "r", "u", "e">>,
     <<"f", "a", "l", "s", "e">>,
     <<"s">>,
     <<"m">>,
     <<"z", "z", " ", "y">>,
     <<"a", "l", "w", "a", "y", "s", "(", ")">>,
     <<"c", "o", "n", "t", "a", "i", "n", "s", "(", "l", ",", " ", "'", "a", "b", "'", ")">>,
     <<"m", " ", "!", "=", " ", "'", "x", "'">>,
     <<"n", " ", ">", " ", "3">>}

\* operands the host joins to its text with && or ||
Operands ==
    {<<"t", "r", "u", "e">>,
     <<"z", "z">>}

\* bounds of the composition
MaxNot == 3
MaxJoin == 1

\* the contexts of the composed texts
LogicContexts == {CtxA, CtxB, CtxD}

\* call records how the text was built: the kind of text, its parts, and the
\* negations, joins and character substitutions the host applied
Call(kind, parts) ==
    [kind |-> kind, parts |-> parts, nots |-> 0, joins |-> 0, substs |-> 0]

Init ==
    /\ variables \in LogicContexts
    /\ input \in Leaves
    /\ original = input
    /\ call = Call("text", <<input>>)
    /\ result = FALSE
    /\ warnings = <<>>
    /\ depth = 0
    /\ shrinks = TRUE
    /\ pc = "compose"
    /\ normalized = <<>>
    /\ threads = <<>>

\* the host negates its text
Negate ==
    /\ pc = "compose"
    /\ call.nots < MaxNot
    /\ input' = <<"!">> \o input
    /\ original' = input'
    /\ call' = [call EXCEPT !.nots = @ + 1]
    /\ UNCHANGED <<variables, result, warnings, depth, shrinks, pc, normalized, threads>>

\* the host puts whitespace around the text it starts from
Pad ==
    /\ pc = "compose"
    /\ call.kind = "text" /\ call.nots = 0 /\ call.joins = 0
    /\ input' = <<SP>> \o input \o <<TAB>>
    /\ original' = input'
    /\ call' = [call EXCEPT !.kind = "padded"]
    /\ UNCHANGED <<variables, result, warnings, depth, shrinks, pc, normalized, threads>>

\* the host joins an operand in front of its text
JoinAnd ==
    /\ pc = "compose"
    /\ call.joins < MaxJoin
    /\ \E operand \in Operands : input' = operand \o <<SP, "&", "&", SP>> \o input
    /\ original' = input'
    /\ call' = [call EXCEPT !.joins = @ + 1]
    /\ UNCHANGED <<variables, result, warnings, depth, shrinks, pc, normalized, threads>>

JoinOr ==
    /\ pc = "compose"
    /\ call.joins < MaxJoin
    /\ \E operand \in Operands : input' = operand \o <<SP, "|", "|", SP>> \o input
    /\ original' = input'
    /\ call' = [call EXCEPT !.joins = @ + 1]
    /\ UNCHANGED <<variables, result, warnings, depth, shrinks, pc, normalized, threads>>

\* the host calls evaluate(input, variables); a call that panics returns
\* nothing
Evaluate ==
    /\ pc = "compose"
    /\ \E n \in {normalize_expression(input)} :
        \E out \in {evaluate_internal(n, variables)} :
           /\ normalized' = (0 :> n)
           /\ IF out.p
              THEN /\ pc' = "panicked"
                   /\ UNCHANGED <<result, warnings, depth, shrinks>>
              ELSE /\ result' = out.v
                   /\ warnings' = out.w
                   /\ depth' = out.d
                   /\ shrinks' = out.sh
                   /\ pc' = "done"
    /\ UNCHANGED <<variables, call, original, input, threads>>

Next == Negate \/ Pad \/ JoinAnd \/ JoinOr \/ Evaluate

Spec == Init /\ [][Next]_vars

----------------------------------------------------------------------------
(* The host rewrites quotes and spaces of a text, as copy and paste does *)

NormLeaves ==
    {<<"s", " ", "=", "=", " ", "'", "a", "b", "'">>,
     <<"s", " ", "=", "=", " ", DQ, "a", "b", DQ>>,
     <<" ", "t">>,
     <<"n", " ", ">", " ", "'", "3", "'">>,
     <<"c", "o", "n", "t", "a", "i", "n", "s", "(", "l", ",", " ", "'", "a", "b", "'", ")">>,
     <<"z", "z", " ", "y">>,
     <<"c", "o", "a", "l", "e", "s", "c", "e", "(", "m", ",", " ", "'", "x", "'", ")", " ", "=", "=", " ", DQ, "x", DQ>>}

\* bound of the substitutions in one text
MaxSubst == 2

\* the variants normalize_expression maps back to a straight character
Variants(c) ==
    IF c = SQ THEN {LSQ, RSQ, BT}
    ELSE IF c = DQ THEN {LDQ, RDQ}
    ELSE IF c = SP THEN {NBSP, THIN, NNBSP}
    ELSE {}

InitNorm ==
    /\ variables \in LogicContexts
    /\ input \in NormLeaves
    /\ original = input
    /\ call = Call("text", <<input>>)
    /\ result = FALSE
    /\ warnings = <<>>
    /\ depth = 0
    /\ shrinks = TRUE
    /\ pc = "compose"
    /\ normalized = <<>>
    /\ threads = <<>>

\* one straight quote or space of the text becomes a variant
Substitute ==
    /\ pc = "compose"
    /\ call.substs < MaxSubst
    /\ \E i \in 1..Len(input) :
          /\ input[i] = original[i]
          /\ \E c \in Variants(original[i]) : input' = [input EXCEPT ![i] = c]
    /\ call' = [call EXCEPT !.substs = @ + 1]
    /\ UNCHANGED <<variables, original, result, warnings, depth, shrinks, pc, normalized, threads>>

NextNorm == Substitute \/ Evaluate

SpecNorm == InitNorm /\ [][NextNorm]_vars

----------------------------------------------------------------------------
(* The host submits a function call *)

contains_name == <<"c", "o", "n", "t", "a", "i", "n", "s">>
startsWith_name == <<"s", "t", "a", "r", "t", "s", "W", "i", "t", "h">>
endsWith_name == <<"e", "n", "d", "s", "W", "i", "t", "h">>
always_name == <<"a", "l", "w", "a", "y", "s">>

\* the function names the host writes; the last is not in the library
FunctionNames == {contains_name, startsWith_name, endsWith_name, <<"h", "a", "s">>}

\* item texts
Items ==
    {<<"a", "b">>,
     <<"a">>,
     <<"c">>,
     <<>>,
     <<"a", ",", "b">>,
     <<"z", "z">>,
     <<"a", "!", "=", "b">>}

\* name(p, 'x'), with the quote character q around the item
FunctionText(name, p, x, q) == Cat(<<name, <<"(">>, p, <<",", SP>>, q, x, q, <<")">>>>)

FunctionCalls ==
    {Call("function", <<name, p, x, q>>) :
        name \in FunctionNames, p \in Paths, x \in Items, q \in {<<SQ>>, <<DQ>>}}

\* argument texts of always(...)
AlwaysArguments ==
    {<<>>,
     <<" ">>,
     <<"m">>,
     <<"'", "x", "'">>,
     <<"s", ",", " ", "n">>,
     <<"m", " ", "!", "=", " ", "s">>,
     <<"m", " ", "<", " ", "1">>}

AlwaysText(lead, a, trail) == Cat(<<lead, always_name, <<"(">>, a, <<")">>, trail>>)

AlwaysCalls ==
    {Call("always", <<lead, a, trail>>) :
        lead \in {<<>>, <<SP>>}, a \in AlwaysArguments, trail \in {<<>>, <<SP, SP>>}}

RenderCall(c) ==
    IF c.kind = "function"
    THEN FunctionText(c.parts[1], c.parts[2], c.parts[3], c.parts[4])
    ELSE AlwaysText(c.parts[1], c.parts[2], c.parts[3])

InitFunction ==
    /\ variables \in Contexts
    /\ call \in FunctionCalls \cup AlwaysCalls
    /\ input = RenderCall(call)
    /\ original = input
    /\ result = FALSE
    /\ warnings = <<>>
    /\ depth = 0
    /\ shrinks = TRUE
    /\ pc = "compose"
    /\ normalized = <<>>
    /\ threads = <<>>

SpecFunction == InitFunction /\ [][Evaluate]_vars

----------------------------------------------------------------------------
(* The host submits a comparison *)

\* coalesce calls that evaluate_coalesce_to_value rejects
RejectedCoalesce ==
    {<<"c", "o", "a", "l", "e", "s", "c", "e", "(", "m", ")">>,
     <<"c", "o", "a", "l", "e", "s", "c", "e", "(", "s">>,
     <<"c", "o", "a", "l", "e", "s", "c", "e", "(", ")">>}

Lefts == Paths \cup RejectedCoalesce

Operators == {<<"=", "=">>, <<"!", "=">>, <<">">>, <<"<">>, <<">", "=">>, <<"<", "=">>}

\* literal texts of the right-hand side, written bare or within quotes
Literals ==
    {<<"a", "b">>,
     <<>>,
     <<"5">>,
     <<"0">>,
     <<"1">>,
     <<"0", ".", "5">>,
     <<"5", ".", "0">>,
     <<"-", "1">>,
     <<"1", "0">>,
     <<"t", "r", "u", "e">>,
     <<"f", "a", "l", "s", "e">>,
     <<"n", "u", "l", "l">>,
     <<"a", "&", "&", "b">>,
     <<"a", "=", "=", "b">>,
     <<"a", " ", "b">>}

Quotes == {<<>>, <<SQ>>, <<DQ>>}

\* L op R, R the literal within the quote q
ComparisonText(l, op, lit, q) == Cat(<<l, <<SP>>, op, <<SP>>, q, lit, q>>)

ComparisonCalls ==
    {Call("comparison", <<l, op, lit, q>>) :
        l \in Lefts, op \in Operators, lit \in Literals, q \in Quotes}

InitComparison ==
    /\ variables \in Contexts
    /\ call \in ComparisonCalls
    /\ input = ComparisonText(call.parts[1], call.parts[2], call.parts[3], call.parts[4])
    /\ original = input
    /\ result = FALSE
    /\ warnings = <<>>
    /\ depth = 0
    /\ shrinks = TRUE
    /\ pc = "compose"
    /\ normalized = <<>>
    /\ threads = <<>>

SpecComparison == InitComparison /\ [][Evaluate]_vars

----------------------------------------------------------------------------
(* The host submits a comparison of a coalesce call *)

\* bound of the arguments before the default
MaxArgs == 2

CoalescePaths == {<<"s">>,
                  <<"n">>,
                  <<"z">>,
                  <<"m">>}

RECURSIVE Tuples(_, _)
Tuples(S, n) ==
    IF n = 0 THEN {<<>>}
    ELSE {<<x>> \o t : x \in S, t \in Tuples(S, n - 1)}

CoalesceArguments == UNION {Tuples(CoalescePaths, n) : n \in 1..MaxArgs}

\* default arguments: literals, bare and quoted, and names of variables
Defaults ==
    {<<"1", "0">>,
     <<"'", "l", "i", "t", "'">>,
     <<"t", "r", "u", "e">>,
     <<"s">>,
     <<"'", "n", "'">>,
     <<"0", ".", "5">>}

CoalesceOperators == {<<"=", "=">>, <<"!", "=">>, <<">">>, <<"<", "=">>}

CoalesceRights ==
    {<<"'", "l", "i", "t", "'">>,
     <<"5">>,
     <<"1", "0">>,
     <<"t", "r", "u", "e">>,
     <<"0", ".", "5">>}

RECURSIVE JoinArguments(_)
JoinArguments(args) ==
    IF Len(args) = 1 THEN args[1]
    ELSE args[1] \o <<",", SP>> \o JoinArguments(Tail(args))

\* coalesce(a1, ..., an, default) op R
CoalesceText(args, default, op, r) ==
    Cat(<<coalesce_open, JoinArguments(Append(args, default)), <<")", SP>>, op, <<SP>>, r>>)

CoalesceCalls ==
    {Call("coalesce", <<args, default, op, r>>) :
        args \in CoalesceArguments, default \in Defaults,
        op \in CoalesceOperators, r \in CoalesceRights}

CoalesceContexts == {CtxA, CtxB, CtxC}

InitCoalesce ==
    /\ variables \in CoalesceContexts
    /\ call \in CoalesceCalls
    /\ input = CoalesceText(call.parts[1], call.parts[2], call.parts[3], call.parts[4])
    /\ original = input
    /\ result = FALSE
    /\ warnings = <<>>
    /\ depth = 0
    /\ shrinks = TRUE
    /\ pc = "compose"
    /\ normalized = <<>>
    /\ threads = <<>>

SpecCoalesce == InitCoalesce /\ [][Evaluate]_vars

----------------------------------------------------------------------------
(* Claims on composed texts (specification Spec) *)

\* whether the evaluation of a text negates an operand with a leading ! or
\* splits it at ||
RECURSIVE negates_or_disjoins(_)
negates_or_disjoins(expression) ==
    LET expr == trim(expression)
        and_pos == find(expr, <<"&", "&">>)
    IN  IF strip_prefix(expr, "!").some THEN TRUE
        ELSE IF and_pos # 0
        THEN negates_or_disjoins(left_of(expr, and_pos))
             \/ negates_or_disjoins(right_of(expr, and_pos))
        ELSE find(expr, <<"|", "|">>) # 0

\* C1, as stated: whenever the warning was emitted during the call, for the
\* expression or for any sub-expression of it, evaluate returned false.
C1_WarningMeansFalse ==
    (pc = "done" /\ warnings # <<>>) => result = FALSE

\* C1, amended: whenever the warning was emitted during the call and the
\* evaluation neither negated an operand with a leading ! nor split the text
\* at ||, evaluate returned false.
C1_WarningMeansFalseWithoutNotOrOr ==
    (pc = "done" /\ warnings # <<>> /\ ~negates_or_disjoins(normalize_expression(input)))
        => result = FALSE

C1_Witness ==
    /\ pc = "done"
    /\ warnings # <<>>
    /\ ~negates_or_disjoins(normalize_expression(input))
    /\ call.joins > 0
    /\ result = FALSE

\* C5: double negation cancels: the result for a text !!E is the result of
\* evaluate for E in the same context (E itself may begin with ! or whitespace).
C5_DoubleNegationCancels ==
    (pc = "done" /\ starts_with(input, <<"!", "!">>))
        => result = evaluate(SubSeq(input, 3, Len(input)), variables).v

C5_Witness ==
    /\ pc = "done"
    /\ call.nots = 3
    /\ starts_with(input, <<"!", "!", "!">>)
    /\ result = evaluate(SubSeq(input, 3, Len(input)), variables).v
    /\ result = TRUE

----------------------------------------------------------------------------
(* Claims on rewritten texts (specification SpecNorm) *)

\* C6: normalization equivalence: after any straight quotes and spaces of a
\* text were replaced by smart quotes, backticks and Unicode spaces, evaluate
\* returns what it returns for the text as it was.
C6_NormalizationEquivalence ==
    pc = "done" => result = evaluate(original, variables).v

C6_Witness ==
    /\ pc = "done"
    /\ call.substs = 2
    /\ \E i \in 1..Len(input) : input[i] = BT
    /\ \E i \in 1..Len(input) : input[i] \in {NBSP, THIN, NNBSP, RSQ, RDQ}
    /\ result = TRUE
    /\ result = evaluate(original, variables).v

----------------------------------------------------------------------------
(* Claims on function calls (specification SpecFunction) *)

\* x occurs in s as a run of consecutive characters
IsSubstring(x, s) == \E i \in 1..(Len(s) + 1) : \E j \in (i - 1)..Len(s) : SubSeq(s, i, j) = x

\* the statement of contains: an Array with an element that is exactly the
\* String x, or a String that holds x
ContainsHolds(v, x) ==
    \/ v.kind = "Array" /\ \E i \in 1..Len(v.items) : v.items[i] = String(x)
    \/ v.kind = "String" /\ IsSubstring(x, v.s)

\* C3: contains(p, 'x') is true if and only if p resolves to an Array with an
\* element that is exactly the String x or to a String containing x, and is
\* false for every other kind of value and for an absent p.
C3_ContainsIff ==
    (pc = "done" /\ call.kind = "function" /\ call.parts[1] = contains_name
        /\ call.parts[4] = <<SQ>>)
        => result = ContainsHolds(get_value(call.parts[2], variables), call.parts[3])

\* C7: always(A) is true if and only if A is empty or whitespace only, in
\* every context and whatever whitespace surrounds the call.
C7_AlwaysIff ==
    (pc = "done" /\ call.kind = "always")
        => result = (\A i \in 1..Len(call.parts[2]) : call.parts[2][i] \in Whitespace)

----------------------------------------------------------------------------
(* Claims on comparisons (specification SpecComparison) *)

OperatorSequences ==
    {<<">", "=">>, <<"<", "=">>, <<"=", "=">>, <<"!", "=">>, <<">">>, <<"<">>,
     <<"&", "&">>, <<"|", "|">>}

HoldsNoOperator(r) == \A o \in OperatorSequences : ~IsSubstring(o, r)

\* the left side of the comparison does not resolve
LeftUndefined ==
    \/ call.parts[1] \in Paths /\ get_value(call.parts[1], variables) = Absent
    \/ call.parts[1] \in RejectedCoalesce

\* C2: with a left side that does not resolve (an absent path or a rejected
\* coalesce call) the result is fixed by the operator: == false, != true,
\* > false, < true, >= false, <= true, for every right-hand token that holds
\* no operator sequence, && or ||.
C2_UndefinedTruthTable ==
    (pc = "done" /\ call.kind = "comparison" /\ LeftUndefined
        /\ HoldsNoOperator(Cat(<<call.parts[4], call.parts[3], call.parts[4]>>)))
        => result = (call.parts[2] \in {<<"!", "=">>, <<"<">>, <<"<", "=">>})

C2_Witness ==
    /\ pc = "done"
    /\ call.kind = "comparison"
    /\ call.parts[1] \in RejectedCoalesce
    /\ call.parts[2] = <<"<", "=">>
    /\ call.parts[3] = <<"5">>
    /\ call.parts[4] = <<SQ>>
    /\ result = TRUE

\* C8: for a path that resolves to a String s and a text t within single or
\* double quotes (t holding no quote), s == 't' is true if and only if s is t
\* character for character, and s != 't' if and only if s differs from t.
C8_StringEqualityExact ==
    (pc = "done" /\ call.kind = "comparison" /\ call.parts[1] \in Paths
        /\ get_value(call.parts[1], variables).kind = "String"
        /\ call.parts[4] \in {<<SQ>>, <<DQ>>}
        /\ call.parts[2] \in {<<"=", "=">>, <<"!", "=">>})
        => result = ((call.parts[2] = <<"=", "=">>)
                        <=> (get_value(call.parts[1], variables).s = call.parts[3]))

\* numeric-of: a Number is itself, a String its parsed number, true 1,
\* false 0, null 0; nothing else has a number
NumericOf(v) ==
    IF v.kind = "Number" THEN Dec(v.m, v.k)
    ELSE IF v.kind = "String" THEN parse_f64(v.s)
    ELSE IF v.kind = "Bool" THEN (IF v.b THEN Dec(1, 0) ELSE Dec(0, 0))
    ELSE IF v.kind = "Null" THEN Dec(0, 0)
    ELSE NoNum

\* l op r on numbers
Relation(op, l, r) ==
    IF op = <<">">> THEN NumLt(r, l)
    ELSE IF op = <<"<">> THEN NumLt(l, r)
    ELSE IF op = <<">", "=">> THEN NumLt(r, l) \/ NumEq(l, r)
    ELSE NumLt(l, r) \/ NumEq(l, r)

RelationalOperators == {<<">">>, <<"<">>, <<">", "=">>, <<"<", "=">>}

\* the comparison is relational, its left side resolves to a value that has a
\* number and its right side is a numeric literal, bare or within quotes
RelationalCase ==
    /\ pc = "done"
    /\ call.kind = "comparison"
    /\ call.parts[2] \in RelationalOperators
    /\ call.parts[1] \in Paths
    /\ get_value(call.parts[1], variables) # Absent
    /\ NumericOf(get_value(call.parts[1], variables)).some
    /\ parse_f64(call.parts[3]).some

\* C9: for >, <, >= and <=, a left side resolving to a Number, a numeric
\* String, a Bool or Null and a numeric right-hand literal, the result is
\* numeric-of(L) op R; >= and <= are taken whole, never as > or < and then =.
C9_RelationalComparison ==
    RelationalCase
        => result = Relation(call.parts[2], NumericOf(get_value(call.parts[1], variables)),
                             parse_f64(call.parts[3]))

C9_Witness ==
    /\ RelationalCase
    /\ call.parts[2] = <<">", "=">>
    /\ get_value(call.parts[1], variables) = String(<<"5">>)
    /\ call.parts[3] = <<"5", ".", "0">>
    /\ call.parts[4] = <<DQ>>
    /\ result = TRUE

true_text == <<"t", "r", "u", "e">>
false_text == <<"f", "a", "l", "s", "e">>

\* C10: for a variable that resolves to a Bool b, v == 'true' and v == '1'
\* are true exactly when b is true, v == 'false' and v == '0' exactly when b
\* is false; against a bare keyword, v == true (v == false) is true exactly
\* when v resolves to the Bool true (false), so not for the String "true" nor
\* for the Number 1.
C10_BooleanEquality ==
    (pc = "done" /\ call.kind = "comparison" /\ call.parts[1] \in Paths
        /\ call.parts[2] = <<"=", "=">>)
        => LET v == get_value(call.parts[1], variables)
               lit == call.parts[3]
               q == call.parts[4]
           IN  /\ (v.kind = "Bool" /\ q = <<SQ>> /\ lit \in {true_text, <<"1">>})
                      => result = v.b
               /\ (v.kind = "Bool" /\ q = <<SQ>> /\ lit \in {false_text, <<"0">>})
                      => result = ~v.b
               /\ (q = <<>> /\ lit = true_text) => result = (v = Bool(TRUE))
               /\ (q = <<>> /\ lit = false_text) => result = (v = Bool(FALSE))

C10_Witness ==
    /\ pc = "done"
    /\ call.kind = "comparison"
    /\ call.parts[2] = <<"=", "=">>
    /\ call.parts[3] = true_text
    /\ call.parts[4] = <<>>
    /\ get_value(call.parts[1], variables) = String(true_text)
    /\ result = FALSE

----------------------------------------------------------------------------
(* Claims on coalesce (specification SpecCoalesce) *)

\* truthiness of a value, as the claim's "truthy"
Truthy(v) ==
    \/ v.kind = "Bool" /\ v.b
    \/ v.kind = "String" /\ v.s \notin {<<>>, false_text, <<"0">>}
    \/ v.kind = "Number" /\ v.m # 0
    \/ v.kind = "Array" /\ Len(v.items) > 0
    \/ v.kind = "Object" /\ DOMAIN v.fields # {}

\* the literal a text stands for: an integer, else a float, else true, false
\* or null, else the text itself
LiteralOf(t) ==
    IF parse_i64(t).some THEN Int64(parse_i64(t).m)
    ELSE IF parse_f64(t).some THEN Float(parse_f64(t).m, parse_f64(t).k)
    ELSE IF t = true_text THEN Bool(TRUE)
    ELSE IF t = false_text THEN Bool(FALSE)
    ELSE IF t = <<"n", "u", "l", "l">> THEN Null
    ELSE String(t)

\* the value of coalesce(a1, ..., an, default), as the claim states it
CoalesceValue(args, default, vs) ==
    LET hits == {i \in 1..Len(args) :
                    get_value(args[i], vs) # Absent /\ Truthy(get_value(args[i], vs))}
        first == CHOOSE i \in hits : \A j \in hits : i <= j
        name == trim_matches(default, {SQ, DQ})
    IN  IF hits # {} THEN get_value(args[first], vs)
        ELSE IF get_value(name, vs) # Absent THEN get_value(name, vs)
        ELSE LiteralOf(name)

\* the context with a variable w bound to val
WithW(vs, val) == Object((<<"w">> :> val) @@ vs.fields)

\* C4: the value a coalesce call contributes to a comparison is its first
\* argument that resolves and is truthy, else its default (the variable of
\* that name if it resolves, else the literal): the comparison gives what the
\* same comparison gives for a variable bound to that value.
C4_CoalesceValue ==
    (pc = "done" /\ call.kind = "coalesce")
        => result = evaluate(Cat(<<<<"w", SP>>, call.parts[3], <<SP>>, call.parts[4]>>),
                             WithW(variables,
                                   CoalesceValue(call.parts[1], call.parts[2], variables))).v

C4_Witness ==
    /\ pc = "done"
    /\ call.kind = "coalesce"
    /\ Len(call.parts[1]) = 2
    /\ get_value(call.parts[1][1], variables) = Int64(0)
    /\ get_value(call.parts[1][2], variables) = Float(5, 1)
    /\ call.parts[3] = <<"=", "=">>
    /\ call.parts[4] = <<"0", ".", "5">>
    /\ result = TRUE

----------------------------------------------------------------------------
(* Further texts of the host, by the kind of the call *)

\* the segments of a path with a dot between them
RECURSIVE JoinPath(_)
JoinPath(segments) ==
    IF Len(segments) = 1 THEN segments[1]
    ELSE segments[1] \o <<".">> \o JoinPath(Tail(segments))

\* the text of a call: its parts in a row, but for
\*   default <<lit, gap>>: coalesce(s, 'lit') == 'lit', gap after the comma
\*   path <<segment, ...>>: the segments with dots between them
Render(c) ==
    IF c.kind = "default"
    THEN Cat(<<coalesce_open, <<"s", ",">>, c.parts[2], <<SQ>>, c.parts[1],
               <<SQ, ")", SP, "=", "=", SP, SQ>>, c.parts[1], <<SQ>>>>)
    ELSE IF c.kind = "path" THEN JoinPath(c.parts)
    ELSE Cat(c.parts)

\* the state before the host calls evaluate on a text of calls in a context
\* of contexts
InitOf(contexts, calls) ==
    /\ variables \in contexts
    /\ call \in calls
    /\ input = Render(call)
    /\ original = input
    /\ result = FALSE
    /\ warnings = <<>>
    /\ depth = 0
    /\ shrinks = TRUE
    /\ pc = "compose"
    /\ normalized = <<>>
    /\ threads = <<>>

----------------------------------------------------------------------------
(* The host submits a variable path or a keyword as the whole expression *)

\* the names of the boolean literals
Keywords == {<<"t", "r", "u", "e">>, <<"f", "a", "l", "s", "e">>}

\* whitespace the host leaves around the text
Margins == {<<>>, <<SP>>, <<TAB, SP>>}

VariableCalls ==
    {Call("variable", <<lead, p, trail>>) :
        lead \in Margins, p \in Paths \cup Keywords, trail \in Margins}

SpecVariable == InitOf(Contexts, VariableCalls) /\ [][Evaluate]_vars

----------------------------------------------------------------------------
(* Claims on variables and keywords (specification SpecVariable) *)

\* C11: when the whole trimmed expression is a variable path that resolves
\* (a path other than the keywords true and false), evaluate returns the
\* truthiness of the value: a Bool its value, a String true iff non-empty and
\* neither "false" nor "0", a Number true iff non-zero, Null false, an Array
\* and an Object true iff non-empty.
C11_VariableTruthiness ==
    (pc = "done" /\ call.kind = "variable" /\ call.parts[2] \in Paths
        /\ get_value(call.parts[2], variables) # Absent)
        => result = Truthy(get_value(call.parts[2], variables))

\* C18: evaluate("true", v) is true and evaluate("false", v) is false in every
\* context v, also one that defines variables named true and false.
C18_LiteralBooleans ==
    (pc = "done" /\ call.kind = "variable" /\ call.parts[2] \in Keywords)
        => result = (call.parts[2] = true_text)

C18_Witness ==
    /\ pc = "done"
    /\ call.kind = "variable"
    /\ call.parts[2] = true_text
    /\ get_value(true_text, variables) = Bool(FALSE)
    /\ result = TRUE

----------------------------------------------------------------------------
(* The host composes texts that follow no grammar: empty, with unbalanced   *)
(* parentheses, with multi-byte characters next to the operators            *)

TotalLeaves ==
    {<<>>,
     <<"f", "(", EACUTE>>,
     <<")", "(">>,
     <<EACUTE, "&", "&", EMOJI, "|", "|", EACUTE>>,
     <<EACUTE, ">", "=", EACUTE>>,
     <<EMOJI, "<", EACUTE>>,
     <<"c", "o", "a", "l", "e", "s", "c", "e", "(", EACUTE, ",", EACUTE, ")", "=", "=", EACUTE>>,
     <<"c", "o", "a", "l", "e", "s", "c", "e", "(", EACUTE, "<", "1">>,
     <<"c", "o", "n", "t", "a", "i", "n", "s", "(", "s", ",", "'", EACUTE, "'", ")">>}

SpecTotal == InitOf(LogicContexts, {Call("text", <<leaf>>) : leaf \in TotalLeaves}) /\ [][Next]_vars

----------------------------------------------------------------------------
(* Claims on arbitrary texts (specification SpecTotal) *)

\* the number of !, && and || tokens of a text (the ! of != is no token)
RECURSIVE Tokens(_)
Tokens(s) ==
    IF s = <<>> THEN 0
    ELSE IF starts_with(s, <<"&", "&">>) \/ starts_with(s, <<"|", "|">>)
         THEN 1 + Tokens(SubSeq(s, 3, Len(s)))
    ELSE IF s[1] = "!" /\ ~starts_with(s, <<"!", "=">>) THEN 1 + Tokens(Tail(s))
    ELSE Tokens(Tail(s))

\* C12: for every text (empty, with stacked !, with unbalanced parentheses,
\* with multi-byte characters next to operator tokens) and every context,
\* evaluate returns a boolean and does not panic; every recursive call got a
\* strictly shorter text, and the nesting of the calls is at most the number
\* of !, && and || tokens of the text.
C12_TotalAndTerminating ==
    /\ pc # "panicked"
    /\ pc = "done" => /\ result \in BOOLEAN
                      /\ shrinks
                      /\ depth <= Tokens(input)

C12_Witness ==
    /\ pc = "done"
    /\ call.nots = 3
    /\ call.joins = 1
    /\ call.parts[1] = <<EACUTE, "&", "&", EMOJI, "|", "|", EACUTE>>
    /\ Tokens(input) = 6
    /\ depth = 5
    /\ shrinks

----------------------------------------------------------------------------
(* Worker threads call evaluate on one context, each call in two steps:     *)
(* let normalized = normalize_expression(expression), then                  *)
(* evaluate_internal(&normalized, variables)                                *)

\* bounds: the worker threads, and the calls they make in all
NumWorkers == 2
MaxCalls == 3

Workers == 1..NumWorkers

ConcurrentTexts ==
    {<<"s", " ", "=", "=", " ", LSQ, "a", "b", RSQ>>,
     <<"!", "t">>,
     <<"z", "z", " ", "y">>}

RECURSIVE CallsMade(_, _)
CallsMade(ts, w) == IF w = 0 THEN 0 ELSE ts[w].calls + CallsMade(ts, w - 1)

\* a frame that every call shares, as a static buffer would be
frame_shared(w) == 1

\* the stack frame that holds the locals of the call of worker w
frame(w) == w

InitConcurrent ==
    /\ variables \in {CtxA, CtxB}
    /\ threads = [w \in Workers |->
                     [pc |-> "idle", expression |-> <<>>, result |-> FALSE, calls |-> 0]]
    /\ normalized = <<>>
    /\ call = Call("threads", <<>>)
    /\ original = <<>>
    /\ input = <<>>
    /\ result = FALSE
    /\ warnings = <<>>
    /\ depth = 0
    /\ shrinks = TRUE
    /\ pc = "threads"

\* worker w calls evaluate(expression, &variables)
Submit(w) ==
    /\ threads[w].pc \in {"idle", "returned"}
    /\ CallsMade(threads, NumWorkers) < MaxCalls
    /\ \E e \in ConcurrentTexts :
          threads' = [threads EXCEPT ![w].pc = "called", ![w].expression = e,
                                     ![w].calls = @ + 1]
    /\ UNCHANGED <<variables, call, original, input, result, warnings, depth, shrinks,
                   pc, normalized>>

\* let normalized = normalize_expression(expression)
Normalize(w) ==
    /\ threads[w].pc = "called"
    /\ normalized' = (frame(w) :> normalize_expression(threads[w].expression)) @@ normalized
    /\ threads' = [threads EXCEPT ![w].pc = "normalized"]
    /\ UNCHANGED <<variables, call, original, input, result, warnings, depth, shrinks, pc>>

\* evaluate_internal(&normalized, variables), its warn! lines going to the
\* process-wide subscriber
Run(w) ==
    /\ threads[w].pc = "normalized"
    /\ \E out \in {evaluate_internal(normalized[frame(w)], variables)} :
          /\ threads' = [threads EXCEPT ![w].pc = "returned", ![w].result = out.v]
          /\ warnings' = warnings \o out.w
    /\ UNCHANGED <<variables, call, original, input, result, depth, shrinks, pc, normalized>>

NextConcurrent == \E w \in Workers : Submit(w) \/ Normalize(w) \/ Run(w)

SpecConcurrent == InitConcurrent /\ [][NextConcurrent]_vars

----------------------------------------------------------------------------
(* Claims on concurrent calls (specification SpecConcurrent) *)

\* C13: across any sequence and any interleaving of evaluate calls, no step
\* changes the variable context, and the boolean a call returns is the one
\* evaluate gives for that call's own expression and context, whatever calls
\* ran before it or run alongside.
C13_Purity ==
    [][/\ variables' = variables
       /\ \A w \in Workers :
             threads'[w].pc = "returned"
                 => threads'[w].result = evaluate(threads'[w].expression, variables').v]_vars

C13_Witness ==
    /\ pc = "threads"
    /\ threads[1].pc = "returned"
    /\ threads[1].calls = 2
    /\ threads[2].pc = "normalized"
    /\ threads[1].expression # threads[2].expression
    /\ normalized[frame(1)] # normalized[frame(2)]
    /\ threads[1].result = evaluate(threads[1].expression, variables).v
    /\ threads[1].result = TRUE

----------------------------------------------------------------------------
(* The host submits coalesce(s, 'lit') == 'lit' *)

\* contexts with s absent, not truthy, or truthy; they bind nothing else, or
\* the name of the default, or the default as it is written
DefaultContexts ==
    LET values == {Null, String(<<>>), Int64(0), Bool(FALSE), Float(0, 1), String(<<"0">>),
                   String(<<"f", "a", "l", "s", "e">>), Array(<<>>), Object(<<>>),
                   String(<<"a", "b">>)}
        others == {<<>>,
                   <<"l", "i", "t">> :> String(<<"x">>),
                   <<"l", "i", "t">> :> Null,
                   <<"5">> :> String(<<"l", "i", "t">>),
                   <<SQ, "l", "i", "t", SQ>> :> String(<<"x">>)}
    IN  {Object(b) : b \in others}
        \cup {Object((<<"s">> :> v) @@ b) : v \in values, b \in others}
        \cup {Null}

\* the texts of the quoted default, and the gap after the comma
DefaultCalls ==
    {Call("default", <<lit, gap>>) :
        lit \in {<<"l", "i", "t">>,
                 <<"p", "e", "n", "d", "i", "n", "g">>,
                 <<"5">>,
                 <<"n", "u", "l", "l">>},
        gap \in {<<>>, <<SP>>}}

SpecDefault == InitOf(DefaultContexts, DefaultCalls) /\ [][Evaluate]_vars

----------------------------------------------------------------------------
(* Claims on the quoted default (specification SpecDefault) *)

\* s is absent, null or falsy in the context
NotTruthy(vs) == get_value(<<"s">>, vs) = Absent \/ ~Truthy(get_value(<<"s">>, vs))

----------------------------------------------------------------------------
(* Further claims on comparisons (specification SpecComparison) *)

\* C15: != is the negation of ==: for every context, every left side
\* (resolving or not) and every right-hand token that holds no operator
\* sequence, && or ||, L != R gives the opposite of what L == R gives.
C15_NotEqualNegatesEqual ==
    (pc = "done" /\ call.kind = "comparison" /\ call.parts[2] = <<"!", "=">>
        /\ HoldsNoOperator(Cat(<<call.parts[4], call.parts[3], call.parts[4]>>)))
        => result = ~evaluate(ComparisonText(call.parts[1], <<"=", "=">>, call.parts[3],
                                             call.parts[4]), variables).v

C15_Witness ==
    /\ pc = "done"
    /\ call.kind = "comparison"
    /\ call.parts[2] = <<"!", "=">>
    /\ get_value(call.parts[1], variables) = Int64(5)
    /\ call.parts[3] = <<"5", ".", "0">>
    /\ call.parts[4] = <<DQ>>
    /\ result = FALSE

----------------------------------------------------------------------------
(* The host resolves a path with get_value *)

\* bound of the segments of a path
MaxSegments == 3

\* contexts with nested Objects, a key that holds a dot, an empty key, and
\* nodes that are no Objects
PathContexts ==
    {Object((<<"o">> :> Object((<<"o">> :> Object(<<"k">> :> String(<<"d">>)))
                               @@ (<<"k">> :> String(<<"a", "b">>))
                               @@ (<<>> :> Int64(7))))
         @@ (<<"o", ".", "k">> :> String(<<"f", "l", "a", "t">>))
         @@ (<<>> :> Bool(TRUE))
         @@ (<<"l">> :> Array(<<String(<<"c">>)>>))
         @@ (<<"k">> :> Null)),
     Object((<<"o">> :> String(<<"a", "b">>)) @@ (<<"k">> :> Object(<<"o">> :> Int64(0)))),
     Array(<<String(<<"c">>)>>),
     CtxA, CtxD, CtxE}

PathCalls ==
    {Call("path", segments) :
        segments \in UNION {Tuples({<<"o">>, <<"k">>, <<"l">>, <<"0">>, <<>>}, n) :
                               n \in 1..MaxSegments}}

\* the host calls get_value(input, variables)
Resolve ==
    /\ pc = "compose"
    /\ result' = get_value(input, variables)
    /\ pc' = "done"
    /\ UNCHANGED <<variables, call, original, input, warnings, depth, shrinks,
                   normalized, threads>>

SpecPath == InitOf(PathContexts, PathCalls) /\ [][Resolve]_vars

----------------------------------------------------------------------------
(* Claims on paths (specification SpecPath) *)

\* the value reached from node by following the segments through Objects
RECURSIVE Follow(_, _)
Follow(node, segments) ==
    IF segments = <<>> THEN node
    ELSE IF node.kind = "Object" /\ Head(segments) \in DOMAIN node.fields
         THEN Follow(node.fields[Head(segments)], Tail(segments))
    ELSE Absent

\* C16: get_value returns the value reached by following every segment of
\* the path through nested Objects from the root, and absent as soon as a
\* segment is missing or the node reached is no Object, never the value of a
\* prefix; for a path of one segment that is the direct lookup of the key.
C16_PathResolution ==
    (pc = "done" /\ call.kind = "path")
        => /\ result = Follow(variables, call.parts)
           /\ Len(call.parts) = 1 => result = value_get(variables, input)

C16_Witness ==
    /\ pc = "done"
    /\ call.kind = "path"
    /\ call.parts = <<<<"o">>, <<"k">>, <<"o">>>>
    /\ Follow(variables, <<<<"o">>, <<"k">>>>) = String(<<"a", "b">>)
    /\ result = Absent

----------------------------------------------------------------------------
(* The host submits any text of quotes, spaces and their variants *)

\* bound of the length of the text
MaxLen == 3

NormalizerCalls ==
    {Call("raw", <<text>>) :
        text \in UNION {Tuples({"a", SQ, LSQ, RDQ, BT, NBSP, THIN, NNBSP, TAB}, n) :
                           n \in 0..MaxLen}}

SpecNormalizer == InitOf({CtxD}, NormalizerCalls) /\ [][Evaluate]_vars

----------------------------------------------------------------------------
(* Claims on the normalizer (specification SpecNormalizer) *)

\* C17: for every text x, normalize(x) holds none of the replaced characters
\* (smart single and double quotes, backtick, non-breaking, thin and narrow
\* no-break space), has no leading or trailing whitespace, and is left as it
\* is by a second normalization.
C17_NormalizerIdempotent ==
    (call.kind = "raw" /\ pc # "compose")
        => LET n == normalized[0]
           IN  /\ \A i \in 1..Len(n) : n[i] \notin {LSQ, RSQ, LDQ, RDQ, BT, NBSP, THIN, NNBSP}
               /\ n # <<>> => (n[1] \notin Whitespace /\ n[Len(n)] \notin Whitespace)
               /\ normalize_expression(n) = n

C17_Witness ==
    /\ call.kind = "raw"
    /\ pc # "compose"
    /\ input = <<NBSP, BT, TAB>>
    /\ normalized[0] = <<SQ>>

----------------------------------------------------------------------------
(* The host joins three operands with && and || *)

LogicCalls ==
    LET operands == {<<"t", "r", "u", "e">>,
                     <<"f", "a", "l", "s", "e">>,
                     <<"s">>,
                     <<"z", "z", " ", "y">>,
                     <<"n", " ", ">", " ", "3">>,
                     <<"c", "o", "n", "t", "a", "i", "n", "s", "(", "l", ",", " ", "'", "a", "b", "'", ")">>}
        joins == {<<SP, "&", "&", SP>>, <<SP, "|", "|", SP>>}
    IN  {Call("logic", <<a, j1, b, j2, c>>) :
            a \in operands, j1 \in joins, b \in operands, j2 \in joins, c \in operands}

SpecLogic == InitOf(LogicContexts, LogicCalls) /\ [][Evaluate]_vars

----------------------------------------------------------------------------
(* Claims on three operands (specification SpecLogic) *)

IsAnd(join) == join = <<SP, "&", "&", SP>>

----------------------------------------------------------------------------
(* The host negates a text, with whitespace around the ! *)

NegationCalls ==
    {Call("negation", <<lead, <<"!">>, gap, x>>) :
        lead \in Margins, gap \in Margins,
        x \in {<<"t">>,
               <<"s", " ", "&", "&", " ", "m">>,
               <<"f", " ", "|", "|", " ", "t">>,
               <<"s", " ", "=", "=", " ", "'", "a", "b", "'">>,
               <<"m", " ", "=", "=", " ", "'", "x", "'">>,
               <<"!", "t">>,
               <<"!", "f", " ", "&", "&", " ", "t">>,
               <<"z", "z", " ", "y">>,
               <<>>}}

SpecNegation == InitOf(LogicContexts, NegationCalls) /\ [][Evaluate]_vars

----------------------------------------------------------------------------
(* Claims on negated texts (specification SpecNegation) *)

\* C20: a leading ! negates the whole rest of the text: evaluate of !X is the
\* opposite of evaluate of X whatever X holds (!A && B is not (A and B),
\* !v == 'x' is not (v == 'x')), with or without whitespace before and after
\* the !.
C20_NegationOfRemainder ==
    (pc = "done" /\ call.kind = "negation")
        => result = ~evaluate(call.parts[4], variables).v

C20_Witness ==
    /\ pc = "done"
    /\ call.kind = "negation"
    /\ call.parts[1] = <<TAB, SP>>
    /\ call.parts[3] = <<SP>>
    /\ call.parts[4] = <<"s", " ", "&", "&", " ", "m">>
    /\ get_value(<<"s">>, variables) = String(<<"a", "b">>)
    /\ result = TRUE

----------------------------------------------------------------------------
(* Claims on the quotes of a function's item (specification SpecFunction) *)

\* the other straight quote
OtherQuote(q) == IF q = <<SQ>> THEN <<DQ>> ELSE <<SQ>>

\* C21: the item of contains, startsWith and endsWith loses its surrounding
\* quotes whether they are single or double: the call written with the double
\* quote returns what the call written with the single quote returns, for
\* every context, path and item.
C21_QuoteKindIrrelevant ==
    (pc = "done" /\ call.kind = "function")
        => result = evaluate(FunctionText(call.parts[1], call.parts[2], call.parts[3],
                                          OtherQuote(call.parts[4])), variables).v

----------------------------------------------------------------------------
(* Claims on the diagnostic (specification Spec) *)

\* the line warn! writes for the text it names
warn_line(expression) ==
    Cat(<<<<"C", "o", "u", "l", "d", SP, "n", "o", "t", SP, "p", "a", "r", "s", "e", SP, "e", "x", "p", "r", "e", "s", "s", "i", "o", "n", ":", SP, SQ>>,
          expression,
          <<SQ, ".", SP, "D", "e", "f", "a", "u", "l", "t", "i", "n", "g", SP, "t", "o", SP, "f", "a", "l", "s", "e", ".">>>>)

\* x occurs in the line as a run of consecutive characters
Holds(line, x) ==
    \E i \in 1..(Len(line) - Len(x) + 1) : SubSeq(line, i, i + Len(x) - 1) = x

\* C22: a call that reaches the unparseable step writes exactly one warning
\* line, and that line holds the text as it was passed to evaluate (whole and
\* not normalized); a call that does not reach the step writes none.
C22_OneWarningNamingTheOriginal ==
    pc = "done"
        => /\ Len(warnings) <= 1
           /\ \A i \in 1..Len(warnings) : Holds(warn_line(warnings[i]), input)

----------------------------------------------------------------------------
(* Claims on complementary relational operators (specification SpecComparison) *)

\* the operator that states the opposite relation
Complement(op) ==
    IF op = <<"<">> THEN <<">", "=">>
    ELSE IF op = <<">", "=">> THEN <<"<">>
    ELSE IF op = <<">">> THEN <<"<", "=">>
    ELSE <<">">>

\* a call L op R with a path L, a relational op and a numeric literal R
RelationalOnPath ==
    /\ pc = "done"
    /\ call.parts[1] \in Paths
    /\ call.parts[2] \in {<<"<">>, <<">", "=">>, <<">">>, <<"<", "=">>}
    /\ parse_f64(call.parts[3]).some

\* what evaluate returns for the same call with the complementary operator
ComplementResult ==
    evaluate(ComparisonText(call.parts[1], Complement(call.parts[2]), call.parts[3],
                            call.parts[4]), variables).v

\* C23, as stated: for every context, every path L, undefined or resolving
\* to a value of any kind, and every numeric literal R, L < R is the opposite
\* of L >= R and L > R is the opposite of L <= R.
C23_ComplementaryPairs ==
    RelationalOnPath => result = ~ComplementResult

\* C23, amended: the same for every path L that is undefined or resolves to
\* a value with a numeric value (a Number, a Bool, Null, or a String that
\* parses as a number other than NaN).
C23_ComplementaryPairsOfNumericLeft ==
    (RelationalOnPath
        /\ LET lhs == get_value(call.parts[1], variables)
           IN  lhs = Absent \/ lhs_num(lhs).some)
        => result = ~ComplementResult

C23_Witness ==
    /\ pc = "done"
    /\ variables = CtxA
    /\ call.parts = <<<<"n">>, <<"<">>, <<"5">>, <<SQ>>>>
    /\ result = FALSE
    /\ ComplementResult = TRUE

====
